---- MODULE Spec2Model ----
(***************************************************************************)
(* A model of sunder.split_axes (src/sunder/sunder.py): one call of the    *)
(* function, step by step, with the coordinate arithmetic carried out in   *)
(* IEEE-754 binary64 (Python's float) and the cell marking carried out as  *)
(* NumPy's index assignment does it.                                       *)
(***************************************************************************)
EXTENDS Integers, Sequences, FiniteSets, TLC

(***************************************************************************)
(* Natural numbers of any size, as little-endian sequences of limbs: the   *)
(* 53-bit significands of Python floats and their 106-bit products do not  *)
(* fit TLC's integers.  The empty sequence is zero and the last limb of any   *)
(* other number is not zero.                                               *)
(***************************************************************************)
Base == 2^12

RECURSIVE IntBits(_)
IntBits(n) == IF n = 0 THEN 0 ELSE 1 + IntBits(n \div 2)

LimbBits == IntBits(Base - 1)

Limb(a, i) == IF i >= 1 /\ i <= Len(a) THEN a[i] ELSE 0

RECURSIVE Trim(_)
Trim(a) ==
    IF a = <<>> THEN a
    ELSE IF a[Len(a)] = 0 THEN Trim(SubSeq(a, 1, Len(a) - 1))
    ELSE a

RECURSIVE Carry(_, _)
Carry(a, c) ==
    IF a = <<>>
    THEN IF c = 0 THEN <<>> ELSE <<c % Base>> \o Carry(<<>>, c \div Base)
    ELSE <<(a[1] + c) % Base>> \o Carry(Tail(a), (a[1] + c) \div Base)

BigNorm(a) == Trim(Carry(a, 0))

BigFromInt(k) == BigNorm(<<k>>)

BigAdd(a, b) ==
    LET n == IF Len(a) > Len(b) THEN Len(a) ELSE Len(b)
    IN  BigNorm([i \in 1..n |-> Limb(a, i) + Limb(b, i)])

RECURSIVE ColSum(_, _, _, _)
ColSum(a, b, k, i) ==
    IF i > Len(a) THEN 0
    ELSE Limb(a, i) * Limb(b, k + 1 - i) + ColSum(a, b, k, i + 1)

BigMul(a, b) ==
    IF a = <<>> \/ b = <<>> THEN <<>>
    ELSE BigNorm([k \in 1..(Len(a) + Len(b) - 1) |-> ColSum(a, b, k, 1)])

BigBits(a) ==
    IF a = <<>> THEN 0 ELSE LimbBits * (Len(a) - 1) + IntBits(a[Len(a)])

\* bit i of a, bit 0 the least significant
BigBit(a, i) == (Limb(a, (i \div LimbBits) + 1) \div 2^(i % LimbBits)) % 2

BigShiftR(a, r) ==
    LET q == r \div LimbBits
        s == r % LimbBits
        n == Len(a) - q
    IN  IF n <= 0 THEN <<>>
        ELSE Trim([j \in 1..n |->
                     (Limb(a, j + q) \div 2^s)
                     + (Limb(a, j + q + 1) % 2^s) * 2^(LimbBits - s)])

BigShiftL(a, r) ==
    LET q == r \div LimbBits
        s == r % LimbBits
        n == Len(a) + q + 1
    IN  IF a = <<>> THEN <<>>
        ELSE Trim([j \in 1..n |->
                     (Limb(a, j - q) % 2^(LimbBits - s)) * 2^s
                     + (Limb(a, j - q - 1) \div 2^(LimbBits - s))])

\* quotient and remainder of a by a small divisor d
RECURSIVE BigDivRem(_, _)
BigDivRem(a, d) ==
    IF a = <<>> THEN [q |-> <<>>, r |-> 0]
    ELSE LET h == BigDivRem(Tail(a), d)
             cur == a[1] + Base * h.r
         IN  [q |-> <<cur \div d>> \o h.q, r |-> cur % d]

RECURSIVE BigLess(_, _)
BigLess(a, b) ==
    IF Len(a) # Len(b) THEN Len(a) < Len(b)
    ELSE IF a = <<>> THEN FALSE
    ELSE IF a[Len(a)] # b[Len(b)] THEN a[Len(a)] < b[Len(b)]
    ELSE BigLess(SubSeq(a, 1, Len(a) - 1), SubSeq(b, 1, Len(b) - 1))

(***************************************************************************)
(* Python floats that are not negative: [m, e] is m * 2^e, m = 0 (and      *)
(* e = 0) or m of exactly Prec bits, so that equal numbers are equal       *)
(* records.  Every operation rounds its exact result to the nearest float, *)
(* ties to even.  The exponent is not bounded: the coordinates met here    *)
(* are far from the subnormal and the overflow range.                      *)
(***************************************************************************)
Prec == 53

FZero == [m |-> <<>>, e |-> 0]

\* n * 2^e rounded to the nearest float, ties to even
FRound(n, e) ==
    LET L == BigBits(n)
    IN  IF L = 0 THEN FZero
        ELSE IF L <= Prec
        THEN [m |-> BigShiftL(n, Prec - L), e |-> e - (Prec - L)]
        ELSE LET r == L - Prec
                 q == BigShiftR(n, r)
                 half == BigBit(n, r - 1) = 1
                 sticky == \E i \in 0..(r - 2) : BigBit(n, i) = 1
                 odd == BigBit(q, 0) = 1
                 q1 == IF half /\ (sticky \/ odd) THEN BigAdd(q, <<1>>) ELSE q
             IN  IF BigBits(q1) > Prec
                 THEN [m |-> BigShiftR(q1, 1), e |-> e + r + 1]
                 ELSE [m |-> q1, e |-> e + r]

\* float(k) of an int k >= 0
FInt(k) == FRound(BigFromInt(k), 0)

\* a * b
FMul(a, b) == FRound(BigMul(a.m, b.m), a.e + b.e)

\* a + b
FAdd(a, b) ==
    IF a.m = <<>> THEN b
    ELSE IF b.m = <<>> THEN a
    ELSE LET e == IF a.e < b.e THEN a.e ELSE b.e
         IN  FRound(BigAdd(BigShiftL(a.m, a.e - e), BigShiftL(b.m, b.e - e)), e)

\* the float nearest to p / d, for ints p >= 0 and d >= 1: float(p) / float(d)
\* of ints that are floats exactly, and a decimal literal such as 0.1 (1 / 10)
FQuot(p, d) ==
    LET k == Prec + 2 + IntBits(d)
        dr == BigDivRem(BigShiftL(BigFromInt(p), k), d)
        n == BigAdd(BigShiftL(Trim(dr.q), 1), IF dr.r = 0 THEN <<>> ELSE <<1>>)
    IN  FRound(n, 0 - (k + 1))

\* a < b (the code compares no floats: used to state properties)
FLess(a, b) ==
    IF b.m = <<>> THEN FALSE
    ELSE IF a.m = <<>> THEN TRUE
    ELSE IF a.e # b.e THEN a.e < b.e
    ELSE BigLess(a.m, b.m)

FLeq(a, b) == a = b \/ FLess(a, b)

(***************************************************************************)
(* The arguments of split_axes.  None, an int and a list are told apart by *)
(* a tag, as isinstance tells them apart.                                  *)
(***************************************************************************)
None == [kind |-> "none"]
IntArg(n) == [kind |-> "int", n |-> n]
ListArg(s) == [kind |-> "list", items |-> s]
\* an explicit 2D index (i, j) in a select or exclude list
PairArg(ij) == [kind |-> "pair", ij |-> ij]
\* an argument no step has read yet
Unread == [kind |-> "unread"]

\* the bounds of the model
MaxN == 6
MaxNY == 3
MaxSel == 5

\* bb = ax.get_position(): the reference region.  The first is the region
\* of the docstring's example, the second matplotlib's default subplot.
Refs ==
    { [x0 |-> FQuot(1, 2), width |-> FQuot(1, 2),
       y0 |-> FZero, height |-> FInt(1)],
      [x0 |-> FQuot(125, 1000), width |-> FQuot(775, 1000),
       y0 |-> FQuot(11, 100), height |-> FQuot(77, 100)] }

\* the lists of the docstring, and one that leaves the reference region
DocList == << <<FQuot(1, 10), FQuot(3, 10)>>, <<FQuot(7, 10), FQuot(9, 10)>> >>
DocList2 == << <<FQuot(1, 10), FQuot(2, 10)>>, <<FQuot(5, 100), FQuot(15, 100)>> >>
WideList == << <<FQuot(9, 10), FQuot(12, 10)>> >>

XArgs ==
    {None} \cup {IntArg(n) : n \in 0..MaxN}
           \cup {ListArg(DocList), ListArg(DocList2), ListArg(WideList)}
YArgs ==
    {None} \cup {IntArg(n) : n \in 0..MaxNY} \cup {ListArg(DocList2)}

\* len() of the list process_axis makes of an argument
AxisLen(a) ==
    IF a.kind = "none" THEN 1
    ELSE IF a.kind = "int" THEN a.n
    ELSE Len(a.items)

SelectArgs(n) ==
    {None} \cup {IntArg(k) : k \in 0..MaxSel}
           \cup {ListArg([k \in 1..n |-> IntArg(k)]), ListArg(<<>>),
                 ListArg(<<IntArg(2), PairArg(<<0, 0>>)>>),
                 ListArg(<<IntArg(1), IntArg(1)>>)}
           \cup {ListArg(<<PairArg(ij)>>) : ij \in (-1..1) \X (-1..1)}
ExcludeArgs ==
    {None} \cup {IntArg(k) : k \in 1..MaxSel}
           \cup {ListArg(<<IntArg(1), IntArg(3)>>), ListArg(<<>>),
                 ListArg(<<PairArg(<<0, 1>>)>>),
                 ListArg(<<IntArg(2), PairArg(<<-1, 0>>)>>)}

(***************************************************************************)
(* process_axis                                                            *)
(***************************************************************************)
\* a variant that takes span for the upper end
WholeAxisAsPair(start, span) == << <<start, span>> >>

\* bounds is None: the whole reference extent
WholeAxis(start, span) == << <<start, FAdd(start, span)>> >>

\* bounds is an int: the n fractions (k*s, k*s + s), s = 1. / float(n)
IntBounds(n) ==
    LET s == FQuot(1, n)
    IN  [k \in 1..n |->
            LET lower == FMul(FInt(k - 1), s) IN <<lower, FAdd(lower, s)>>]

\* a variant that clips every bound to the end of the reference extent
ScaleBoundsClipped(b, start, span) ==
    LET end == FAdd(start, span)
        Clip(v) == IF FLess(end, v) THEN end ELSE v
    IN  [k \in 1..Len(b) |->
            <<Clip(FAdd(start, FMul(b[k][1], span))),
              Clip(FAdd(start, FMul(b[k][2], span)))>>]

\* bounds is a list of fraction pairs: each scaled into the reference extent
ScaleBounds(b, start, span) ==
    [k \in 1..Len(b) |->
        <<FAdd(start, FMul(b[k][1], span)), FAdd(start, FMul(b[k][2], span))>>]

process_axis(bounds, start, span) ==
    IF bounds.kind = "none" THEN WholeAxis(start, span)
    ELSE ScaleBounds(IF bounds.kind = "int" THEN IntBounds(bounds.n)
                     ELSE bounds.items, start, span)

\* 1. / float(0) raises ZeroDivisionError
ZeroDivision(bounds) == bounds.kind = "int" /\ bounds.n = 0

\* a variant that leaves the list in the order given
NotReversed(s) == s

\* s[::-1]
Reversed(s) == [k \in 1..Len(s) |-> s[Len(s) + 1 - k]]

(***************************************************************************)
(* The grid: cells (i, j), i the horizontal and j the vertical index, both *)
(* counted from 0.                                                         *)
(***************************************************************************)
Cells(n, m) == (0..(n - 1)) \X (0..(m - 1))

\* np.ones((nx, ny))
Ones(n, m) == [c \in Cells(n, m) |-> 1]
\* valid_inds *= 0
Zeros(n, m) == [c \in Cells(n, m) |-> 0]

\* a variant with the two components exchanged
LinearIndexSwapped(k, m) == <<(k - 1) \div m, (k - 1) % m>>

\* a linear index k: ((k-1) % ny, (k-1) // ny)
LinearIndex(k, m) == <<(k - 1) % m, (k - 1) \div m>>

\* zip(*_inds): the tuple of first and the tuple of second components; the
\* empty list of an empty _inds
Zip(s) ==
    IF s = <<>> THEN <<>>
    ELSE << [t \in 1..Len(s) |-> s[t][1]], [t \in 1..Len(s) |-> s[t][2]] >>

get_array_inds(inds, m) ==
    LET lst == IF inds.kind = "int" THEN <<inds>> ELSE inds.items
    IN  Zip([t \in 1..Len(lst) |->
                IF lst[t].kind = "int" THEN LinearIndex(lst[t].n, m)
                ELSE lst[t].ij])

\* NumPy's index into an axis of length n: -n .. n-1, the negative ones
\* counted from the end
InRange(k, n) == 0 - n <= k /\ k < n
WrapIndex(k, n) == IF k < 0 THEN k + n ELSE k

\* a[idx] = v raises IndexError
IndexError(idx, n, m) ==
    /\ idx # <<>>
    /\ \E t \in 1..Len(idx[1]) :
           ~InRange(idx[1][t], n) \/ ~InRange(idx[2][t], m)

\* the cells idx addresses
Addressed(idx, n, m) ==
    IF idx = <<>> THEN {}
    ELSE {<<WrapIndex(idx[1][t], n), WrapIndex(idx[2][t], m)>> :
             t \in 1..Len(idx[1])}

\* a[idx] = v, idx the list of two index tuples get_array_inds returns, which
\* the NumPy releases that have np.object and run on the Pythons setup.py
\* names read as the tuple of the two: the cells (idx[0][t], idx[1][t])
SetItem(a, idx, v, n, m) ==
    [c \in DOMAIN a |-> IF c \in Addressed(idx, n, m) THEN v ELSE a[c]]

\* valid_inds after the select step
Selected(sel, n, m) ==
    IF sel.kind = "none" THEN Ones(n, m)
    ELSE SetItem(Zeros(n, m), get_array_inds(sel, m), 1, n, m)

\* a variant that marks the excluded cells valid
ExcludedSetsOne(valid, exc, n, m) ==
    IF exc.kind = "none" THEN valid
    ELSE SetItem(valid, get_array_inds(exc, m), 1, n, m)

\* valid_inds after the exclude step
Excluded(valid, exc, n, m) ==
    IF exc.kind = "none" THEN valid
    ELSE SetItem(valid, get_array_inds(exc, m), 0, n, m)

\* Bbox([[_x[0], _y[0]], [_x[1], _y[1]]])
Bbox(xb, yb) == << <<xb[1], yb[1]>>, <<xb[2], yb[2]>> >>

\* an empty cell of np.ndarray((nx, ny), dtype=np.object)
NoAxes == 0

\* a variant in Fortran order, the first index fastest
RavelFirstFastest(a, n, m) ==
    [t \in 1..(n * m) |-> a[<<(t - 1) % n, (t - 1) \div n>>]]

\* axes.ravel(): the cells in C order, the last index fastest
Ravel(a, n, m) == [t \in 1..(n * m) |-> a[<<(t - 1) \div m, (t - 1) % m>>]]

NotNone(r) == r # NoAxes

\* [x for x in list(axes.ravel()) if x is not None]
Flattened(a, n, m) == SelectSeq(Ravel(a, n, m), NotNone)

\* what split_axes returns
Returned(a, n, m, fl) ==
    IF fl THEN [kind |-> "list", items |-> Flattened(a, n, m)]
    ELSE [kind |-> "ndarray", shape |-> <<n, m>>, cells |-> a]

(***************************************************************************)
(* One call of split_axes.  calls is the sequence of the Bboxes handed to  *)
(* fig.add_axes; the Axes the t-th call returns is named t.  The arguments *)
(* select, exclude and flatten are each read by one step of the function   *)
(* and by no step before it, and the model draws each of them at the step  *)
(* that reads it.                                                          *)
(***************************************************************************)
VARIABLES pc, bb, xarg, yarg, select, exclude, flatten,
          x, y, nx, ny, valid_inds, axes, calls, i, j, result, raised

vars == <<pc, bb, xarg, yarg, select, exclude, flatten,
          x, y, nx, ny, valid_inds, axes, calls, i, j, result, raised>>

Init ==
    /\ pc = "idle"
    /\ bb = Unread /\ xarg = Unread /\ yarg = Unread
    /\ select = Unread /\ exclude = Unread /\ flatten = FALSE
    /\ x = <<>> /\ y = <<>> /\ nx = 0 /\ ny = 0
    /\ valid_inds = <<>> /\ axes = <<>> /\ calls = <<>>
    /\ i = 0 /\ j = 0
    /\ result = Unread /\ raised = "none"

\* split_axes(ax, x, y, ...) is called: bb = ax.get_position()
Call ==
    /\ pc = "idle"
    /\ bb' \in Refs /\ xarg' \in XArgs /\ yarg' \in YArgs
    /\ pc' = "process"
    /\ UNCHANGED <<select, exclude, flatten, x, y, nx, ny, valid_inds, axes,
                   calls, i, j, result, raised>>

\* x = process_axis(...); y = process_axis(...)[::-1]; valid_inds = ones
ProcessAxes ==
    /\ pc = "process"
    /\ IF ZeroDivision(xarg) \/ ZeroDivision(yarg)
       THEN /\ pc' = "raised"
            /\ raised' = "ZeroDivisionError"
            /\ UNCHANGED <<x, y, nx, ny, valid_inds>>
       ELSE LET px == process_axis(xarg, bb.x0, bb.width)
                py == Reversed(process_axis(yarg, bb.y0, bb.height))
            IN  /\ x' = px /\ y' = py
                /\ nx' = Len(px) /\ ny' = Len(py)
                /\ valid_inds' = Ones(Len(px), Len(py))
                /\ pc' = "select"
                /\ UNCHANGED raised
    /\ UNCHANGED <<bb, xarg, yarg, select, exclude, flatten, axes, calls,
                   i, j, result>>

\* if select is not None: valid_inds *= 0; valid_inds[...] = 1
MarkSelect ==
    /\ pc = "select"
    /\ \E sel \in SelectArgs(nx * ny) :
          /\ select' = sel
          /\ IF sel.kind # "none" /\ IndexError(get_array_inds(sel, ny), nx, ny)
             THEN /\ pc' = "raised"
                  /\ raised' = "IndexError"
                  /\ valid_inds' = Zeros(nx, ny)
             ELSE /\ valid_inds' = Selected(sel, nx, ny)
                  /\ pc' = "exclude"
                  /\ UNCHANGED raised
    /\ UNCHANGED <<bb, xarg, yarg, exclude, flatten, x, y, nx, ny, axes,
                   calls, i, j, result>>

\* if exclude is not None: valid_inds[...] = 0; axes = np.ndarray((nx, ny))
MarkExclude ==
    /\ pc = "exclude"
    /\ \E exc \in ExcludeArgs :
          /\ exclude' = exc
          /\ IF exc.kind # "none" /\ IndexError(get_array_inds(exc, ny), nx, ny)
             THEN /\ pc' = "raised"
                  /\ raised' = "IndexError"
                  /\ UNCHANGED <<valid_inds, axes>>
             ELSE /\ valid_inds' = Excluded(valid_inds, exc, nx, ny)
                  /\ axes' = [c \in Cells(nx, ny) |-> NoAxes]
                  /\ pc' = "build"
                  /\ UNCHANGED raised
    /\ UNCHANGED <<bb, xarg, yarg, select, flatten, x, y, nx, ny, calls,
                   i, j, result>>

\* a variant that ignores valid_inds
ConstructsAll(valid, c) == TRUE

\* whether the loop body constructs cell c
Constructs(valid, c) == valid[c] # 0

\* one pass of the body of the loops over enumerate(x) and enumerate(y)
BuildCell ==
    /\ pc = "build"
    /\ IF Constructs(valid_inds, <<i, j>>)
       THEN /\ calls' = Append(calls, Bbox(x[i + 1], y[j + 1]))
            /\ axes' = [axes EXCEPT ![<<i, j>>] = Len(calls) + 1]
       ELSE UNCHANGED <<calls, axes>>
    /\ IF j + 1 < ny THEN /\ j' = j + 1 /\ UNCHANGED <<i, pc>>
       ELSE IF i + 1 < nx THEN /\ i' = i + 1 /\ j' = 0 /\ UNCHANGED pc
       ELSE /\ pc' = "return" /\ UNCHANGED <<i, j>>
    /\ UNCHANGED <<bb, xarg, yarg, select, exclude, flatten, x, y, nx, ny,
                   valid_inds, result, raised>>

\* if flatten: ...; return axes
Return ==
    /\ pc = "return"
    /\ flatten' \in BOOLEAN
    /\ result' = Returned(axes, nx, ny, flatten')
    /\ pc' = "done"
    /\ UNCHANGED <<bb, xarg, yarg, select, exclude, x, y, nx, ny, valid_inds,
                   axes, calls, i, j, raised>>

Next == Call \/ ProcessAxes \/ MarkSelect \/ MarkExclude \/ BuildCell \/ Return

Spec == Init /\ [][Next]_vars

(***************************************************************************)
(* The claims.                                                             *)
(***************************************************************************)
\* the cells that hold an Axes
Built == {c \in DOMAIN axes : axes[c] # NoAxes}

\* the cells marked valid
Included == {c \in DOMAIN valid_inds : valid_inds[c] # 0}

\* the step after process_axis: x, y, nx and ny are set and stay as they are
AxesProcessed == pc = "select"

\* b is n intervals that begin at start, each where the one before ends, and
\* end at start + span
EvenPartition(b, n, start, span) ==
    /\ Len(b) = n
    /\ b[1][1] = start
    /\ \A k \in 1..(Len(b) - 1) : b[k][2] = b[k + 1][1]
    /\ b[Len(b)][2] = FAdd(start, span)

\* C1: an integer axis spec n >= 1 is normalized into exactly n intervals of
\* which the first begins at start, each begins where the previous one ends,
\* and the last ends at start + span (the widths sum exactly to span).
C1_IntSpecPartitionsExactly ==
    AxesProcessed =>
        /\ xarg.kind = "int" => EvenPartition(x, xarg.n, bb.x0, bb.width)
        /\ yarg.kind = "int" =>
               EvenPartition(Reversed(y), yarg.n, bb.y0, bb.height)

\* b is one interval per pair of fr, in the order of fr, each
\* (start + lo*span, start + hi*span)
ScaledPairwise(b, fr, start, span) ==
    /\ Len(b) = Len(fr)
    /\ \A k \in 1..Len(fr) :
          /\ b[k][1] = FAdd(start, FMul(fr[k][1], span))
          /\ b[k][2] = FAdd(start, FMul(fr[k][2], span))

\* C2: a list axis spec gives one interval per input pair, in the order of
\* the input, each (start + lo*span, start + hi*span); nothing is sorted,
\* merged or clipped; the reference (0.5, 1.0) with [(0.1, 0.3), (0.7, 0.9)]
\* gives (0.55, 0.65) and (0.85, 0.95).
C2_ListSpecScaledPairwise ==
    AxesProcessed =>
        /\ xarg.kind = "list" =>
               ScaledPairwise(x, xarg.items, bb.x0, bb.width)
        /\ yarg.kind = "list" =>
               ScaledPairwise(Reversed(y), yarg.items, bb.y0, bb.height)
        /\ (xarg = ListArg(DocList) /\ bb.x0 = FQuot(1, 2)
              /\ bb.width = FQuot(1, 2)) =>
               x = << <<FQuot(55, 100), FQuot(65, 100)>>,
                      <<FQuot(85, 100), FQuot(95, 100)>> >>

C2_Witness ==
    /\ AxesProcessed
    /\ xarg.kind = "list" /\ yarg.kind = "list"
    /\ Len(x) = 2
    /\ FLess(x[2][1], x[1][1])

\* C3: with neither x nor y, and no select or exclude, exactly one region is
\* created, with the bounds (x0, x0 + width) and (y0, y0 + height) of the
\* reference region.
C3_NoSpecsOneWholeRegion ==
    (/\ pc = "done"
     /\ xarg.kind = "none" /\ yarg.kind = "none"
     /\ select.kind = "none" /\ exclude.kind = "none") =>
        /\ Len(calls) = 1
        /\ calls[1] = << <<bb.x0, bb.y0>>,
                         <<FAdd(bb.x0, bb.width), FAdd(bb.y0, bb.height)>> >>

C3_Witness ==
    /\ pc = "done"
    /\ xarg.kind = "none" /\ yarg.kind = "none"
    /\ select.kind = "none" /\ exclude.kind = "none"
    /\ Len(calls) = 1

\* C4: with flatten=False split_axes returns a single region, not a
\* container, when the grid has exactly one cell, and a 2D array otherwise.
C4_SingleCellReturnedDirectly ==
    (pc = "done" /\ ~flatten) =>
        IF nx * ny = 1 THEN result.kind = "axes"
        ELSE result.kind = "ndarray"

\* C5: a linear index k >= 1 as select (no exclude) constructs the cell with
\* horizontal index (k-1) mod ny and vertical index (k-1) div ny and no
\* other cell, and raises only when the grid has no such cell; index 1
\* never raises, and in a grid built from integer specs its cell is the
\* leftmost horizontal and the topmost vertical interval.
C5_LinearIndexCell ==
    (select.kind = "int" /\ select.n >= 1) =>
        LET k == select.n
            c == <<(k - 1) % ny, (k - 1) \div ny>>
        IN  /\ (pc = "raised" /\ exclude.kind = "unread") =>
                   (k # 1 /\ c \notin Cells(nx, ny))
            /\ (pc = "done" /\ exclude.kind = "none") =>
                   /\ Built = {c}
                   /\ calls = <<Bbox(x[c[1] + 1], y[c[2] + 1])>>
                   /\ (k = 1 /\ xarg.kind = "int" /\ yarg.kind = "int") =>
                          /\ c = <<0, 0>>
                          /\ \A n \in 1..nx : FLeq(x[1][1], x[n][1])
                          /\ \A n \in 1..ny : FLeq(y[n][2], y[1][2])

C5_Witness ==
    /\ pc = "done"
    /\ select = IntArg(1) /\ exclude.kind = "none"
    /\ xarg.kind = "int" /\ yarg.kind = "int"
    /\ nx >= 2 /\ ny >= 2
    /\ Built = {<<0, 0>>}
    /\ FLess(x[1][1], x[2][1]) /\ FLess(y[2][2], y[1][2])

\* the cells split_axes(select=S) constructs with no exclude
SelectOnly(sel) ==
    {c \in Cells(nx, ny) : Selected(sel, nx, ny)[c] # 0}

\* C6: the cells constructed with select and exclude are among the cells
\* constructed with the same select and no exclude (which are the cells
\* select marks), no cell that exclude names is constructed, and a call
\* that raises constructs none.
C6_ExcludeOnlyRemoves ==
    /\ pc = "raised" => Built = {}
    /\ pc = "done" =>
        /\ Built \subseteq SelectOnly(select)
        /\ exclude.kind = "none" => Built = SelectOnly(select)
        /\ exclude.kind # "none" =>
               Built \cap Addressed(get_array_inds(exclude, ny), nx, ny) = {}

C6_Witness ==
    /\ pc = "done"
    /\ select.kind = "list" /\ exclude.kind = "int"
    /\ Built # {}
    /\ Built # SelectOnly(select)
    /\ \E c \in SelectOnly(select) :
          c \in Addressed(get_array_inds(exclude, ny), nx, ny)

\* the cell that holds Axes r
CellOf(r) == CHOOSE c \in DOMAIN axes : axes[c] = r

\* C7: with flatten=True the result is a list of exactly the constructed
\* regions, each once and no empty cell, ordered column by column of the
\* grid: by horizontal index first, and by vertical index (top to bottom)
\* within one horizontal interval.
C7_FlattenKeepsBuiltInColumnOrder ==
    (pc = "done" /\ flatten) =>
        /\ result.kind = "list"
        /\ Len(result.items) = Len(calls)
        /\ {result.items[t] : t \in 1..Len(result.items)} = 1..Len(calls)
        /\ {result.items[t] : t \in 1..Len(result.items)} =
               {axes[c] : c \in Built}
        /\ \A t, u \in 1..Len(result.items) :
              t < u =>
                 LET a == CellOf(result.items[t])
                     b == CellOf(result.items[u])
                 IN  a[1] < b[1] \/ (a[1] = b[1] /\ a[2] < b[2])

C7_Witness ==
    /\ pc = "done" /\ flatten
    /\ nx >= 2 /\ ny >= 2
    /\ Len(result.items) >= 3
    /\ Len(result.items) < nx * ny

\* C8: with no select and no exclude the returned grid has shape (nx, ny),
\* the numbers of horizontal and vertical intervals (x=4, y=2 gives (4, 2)),
\* and cell (i, j) has the i-th horizontal interval in the order given and
\* the (ny-1-j)-th vertical interval in the order given, so that for an
\* integer y the row j = 0 is the topmost.
C8_GridIsCrossProduct ==
    (/\ pc = "done" /\ ~flatten
     /\ select.kind = "none" /\ exclude.kind = "none") =>
        LET xs == process_axis(xarg, bb.x0, bb.width)
            ys == process_axis(yarg, bb.y0, bb.height)
        IN  /\ result.shape = <<AxisLen(xarg), AxisLen(yarg)>>
            /\ DOMAIN result.cells = Cells(Len(xs), Len(ys))
            /\ \A c \in Cells(Len(xs), Len(ys)) :
                  /\ result.cells[c] \in 1..Len(calls)
                  /\ calls[result.cells[c]] =
                         Bbox(xs[c[1] + 1], ys[Len(ys) - c[2]])
            /\ yarg.kind = "int" =>
                  \A c \in Cells(Len(xs), Len(ys)) :
                     FLeq(calls[result.cells[c]][2][2],
                          calls[result.cells[<<c[1], 0>>]][2][2])

C8_Witness ==
    /\ pc = "done" /\ ~flatten
    /\ select.kind = "none" /\ exclude.kind = "none"
    /\ xarg = IntArg(4) /\ yarg = IntArg(2)
    /\ result.shape = <<4, 2>>
    /\ Cardinality(Built) = 8

\* the cells the loops have passed
Passed ==
    IF pc = "build"
    THEN {c \in Cells(nx, ny) : c[1] < i \/ (c[1] = i /\ c[2] < j)}
    ELSE IF pc \in {"return", "done"} THEN Cells(nx, ny)
    ELSE {}

\* C9: fig.add_axes is called exactly once for each included cell the loops
\* have passed, at that cell's bounds [(x_lo, y_lo), (x_hi, y_hi)], and for
\* no other cell: the regions created are as many as those cells, every
\* other cell is empty, and a call that raises creates none.
C9_OneRegionPerIncludedCell ==
    /\ Len(calls) = Cardinality(Passed \cap Included)
    /\ \A t \in 1..Len(calls) :
          \E c \in Passed \cap Included :
             /\ axes[c] = t
             /\ calls[t] = Bbox(x[c[1] + 1], y[c[2] + 1])
             /\ \A d \in DOMAIN axes : axes[d] = t => d = c
    /\ \A c \in DOMAIN axes :
          c \notin Passed \cap Included => axes[c] = NoAxes
    /\ pc = "raised" => calls = <<>>

C9_Witness ==
    /\ pc = "done"
    /\ Len(calls) >= 2
    /\ Cardinality(Included) < nx * ny
    /\ Cardinality(Built) = Cardinality(Included)

\* C10: the linear indices 1..nx*ny address the cells of the grid one to
\* one: selecting any one of them raises no error and constructs one cell,
\* distinct indices address distinct cells, and select=[1..nx*ny] raises no
\* error and constructs every cell, also when nx differs from ny.
C10_LinearIndicesCoverGrid ==
    /\ (select.kind = "int" /\ exclude.kind \in {"unread", "none"}
          /\ select.n \in 1..(nx * ny)) =>
          /\ pc # "raised"
          /\ pc = "done" => Cardinality(Built) = 1
    /\ pc = "select" =>
          \A k, l \in 1..(nx * ny) :
             LinearIndex(k, ny) = LinearIndex(l, ny) => k = l
    /\ (select.kind = "list" /\ exclude.kind \in {"unread", "none"}
          /\ select.items = [k \in 1..(nx * ny) |-> IntArg(k)]) =>
          /\ pc # "raised"
          /\ pc = "done" => Built = Cells(nx, ny)
====
